---- MODULE Spec2Model ----
(***************************************************************************)
(* Model of the chatty-backend bootstrap: configuration loading, the       *)
(* database connection helper, the ChattyServer start-up sequence          *)
(* (middleware installation, socket.io + redis adapter, http listen), the  *)
(* express request pipeline it installs, and the CustomError hierarchy.    *)
(***************************************************************************)
EXTENDS Integers, Sequences, FiniteSets, TLC

VARIABLES
    env,            \* process.env: the set of setting names that are defined
    config,         \* the Config singleton: setting name -> value
    pc,             \* position of the synchronous start-up code
    exited,         \* the process has terminated
    exitCode,       \* its exit status (meaningful once exited)
    log,            \* records written to the bunyan loggers / stderr
    stack,          \* express middleware stack, in installation order
    dbAttempts,     \* calls of connect() made so far
    dbPending,      \* mongoose.connect() promises not yet settled
    dbConnected,    \* mongoose connection currently up
    dbEverConnected,\* a connect() promise has resolved at least once
    dbHandlers,     \* listeners registered for mongoose 'disconnected'
    dbDisconnects,  \* 'disconnected' events delivered so far
    dbRejections,   \* mongoose.connect() promises that were rejected
    httpServer,     \* "none" | "created" | "listening"
    io,             \* socket.io Server: "none" | "built" | "adapted"
    pubClient,      \* redis publish link: "none" | "pending" | "ready" | "failed"
    subClient,      \* redis subscribe link, same values
    req,            \* the request in flight, or NoReq
    reqIdx,         \* index in stack of the layer the request is at
    reqErr,         \* the error travelling with the request, or NoErr
    res,            \* responses sent for the request in flight
    handlerRuns,    \* route handlers invoked for the request in flight
    caught,         \* the error the error middleware received, or NoErr
    visited,        \* the layers that handled the request in flight, in order
    served          \* requests accepted so far

vars == <<env, config, pc, exited, exitCode, log, stack, dbAttempts, dbPending, dbConnected,
          dbEverConnected, dbHandlers, dbDisconnects, dbRejections, httpServer, io,
          pubClient, subClient, req, reqIdx, reqErr, res, handlerRuns, caught,
          visited, served>>

procVars == <<exited, exitCode>>
dbVars   == <<dbAttempts, dbPending, dbConnected, dbEverConnected, dbHandlers,
              dbDisconnects, dbRejections>>
netVars  == <<httpServer, io, pubClient, subClient>>
reqVars  == <<req, reqIdx, reqErr, res, handlerRuns, caught, visited, served>>

-----------------------------------------------------------------------------
(* Bounds of the model *)

\* at most this many 'disconnected' events are delivered
MaxDisconnects == 2
\* at most this many requests are accepted
MaxRequests == 1

-----------------------------------------------------------------------------
(* Config (error-handler.ts 96-140) *)

\* the settings read from process.env, in declaration order
ConfigKeys == <<"DATABASE_URL", "JWT_TOKEN", "NODE_ENV", "SECRET_KEY_ONE",
                "SECRET_KEY_TWO", "CLIENT_URL", "REDIS_HOST">>

KeySet == {ConfigKeys[i] : i \in 1..Len(ConfigKeys)}

Undefined == "<undefined>"

\* the environments considered: every setting defined, or exactly one absent
Environments == {KeySet} \cup {KeySet \ {k} : k \in KeySet}

\* the right-hand side of `process.env.X || ...` in the constructor
DefaultValue(k) ==
    CASE k = "DATABASE_URL" -> "mongodb://127.0.0.1:27017/chattyapp-backend"
      [] k = "JWT_TOKEN"    -> "1234"
      [] OTHER              -> ""

\* Config.constructor: this.X = process.env.X || <fallback>
ConfigValue(e, k) == IF k \in e THEN "env:" \o k ELSE DefaultValue(k)

\* Config.validateConfig: the first key whose value is undefined, or "" when
\* the loop finishes without throwing
validateConfig(c) ==
    LET bad == {i \in 1..Len(ConfigKeys) : c[ConfigKeys[i]] = Undefined}
    IN  IF bad = {} THEN ""
        ELSE ConfigKeys[CHOOSE i \in bad : \A j \in bad : i <= j]

-----------------------------------------------------------------------------
(* Process *)

NoReq == [kind |-> "none"]
NoErr == [kind |-> "none"]

\* process.exit(code), or death by uncaught exception
Exit(code) == /\ exited' = TRUE
              /\ exitCode' = code

\* the event loop is free to run callbacks: the synchronous start-up code has
\* returned (it is suspended at the await, or startServer has finished)
LoopIdle == ~exited /\ pc \in {"awaitBroker", "done"}

Init ==
    /\ env \in Environments
    /\ config = [k \in KeySet |-> ConfigValue(env, k)]
    /\ pc = "loadConfig"
    /\ exited = FALSE
    /\ exitCode = 0
    /\ log = {}
    /\ stack = <<>>
    /\ dbAttempts = 0
    /\ dbPending = 0
    /\ dbConnected = FALSE
    /\ dbEverConnected = FALSE
    /\ dbHandlers = 0
    /\ dbDisconnects = 0
    /\ dbRejections = 0
    /\ httpServer = "none"
    /\ io = "none"
    /\ pubClient = "none"
    /\ subClient = "none"
    /\ req = NoReq
    /\ reqIdx = 0
    /\ reqErr = NoErr
    /\ res = <<>>
    /\ handlerRuns = 0
    /\ caught = NoErr
    /\ visited = <<>>
    /\ served = 0

-----------------------------------------------------------------------------
(* ChattyServer.start (setupServer.ts 40-46) *)

\* faulty variant: routes are registered before the security and body stages
startOrderRoutesFirst ==
    <<"routesMiddleware", "securityMiddleware", "standardMiddleware",
      "globalErrorHandler", "startServer">>

\* the calls start() makes, in order
startOrder ==
    <<"securityMiddleware", "standardMiddleware", "routesMiddleware",
      "globalErrorHandler", "startServer">>

\* the call that follows call p in start()
nextCall(p) ==
    LET i == CHOOSE j \in 1..Len(startOrder) : startOrder[j] = p
    IN  startOrder[i + 1]

\* faulty variant: globalErrorHandler registers the catch-all route only
layersOfNoErrorLayer(p) ==
    CASE p = "securityMiddleware" -> <<"cookieSession", "hpp", "helmet", "cors">>
      [] p = "standardMiddleware" -> <<"compression", "json", "urlencoded">>
      [] p = "routesMiddleware"   -> <<"routes">>
      [] p = "globalErrorHandler" -> <<"notFound">>

\* the app.use / app.all calls each method makes, in order
layersOf(p) ==
    CASE p = "securityMiddleware" -> <<"cookieSession", "hpp", "helmet", "cors">>
      [] p = "standardMiddleware" -> <<"compression", "json", "urlencoded">>
      [] p = "routesMiddleware"   -> <<"routes">>
      [] p = "globalErrorHandler" -> <<"notFound", "errorHandler">>

-----------------------------------------------------------------------------
(* Application.initialize (setupDatabase.ts 39-59) *)

\* this.loadConfig(): config.validateConfig(); a throw is uncaught, node
\* prints the error and exits with status 1
loadConfig ==
    /\ ~exited /\ pc = "loadConfig"
    /\ LET k == validateConfig(config)
       IN  IF k = ""
           THEN /\ pc' = "databaseConnection"
                /\ UNCHANGED <<procVars, log>>
           ELSE /\ pc' = "crashed"
                /\ log' = log \cup {<<"uncaught", "Configuration " \o k \o " is undefined.">>}
                /\ Exit(1)
    /\ UNCHANGED <<env, config, stack, dbVars, netVars, reqVars>>

\* faulty variant: the listener is registered but connect() is never called
databaseConnectionNoConnect ==
    /\ ~exited /\ pc = "databaseConnection"
    /\ dbHandlers' = dbHandlers + 1
    /\ pc' = startOrder[1]
    /\ UNCHANGED <<env, config, procVars, log, stack, dbAttempts, dbPending,
                   dbConnected, dbEverConnected, dbDisconnects, dbRejections, netVars,
                   reqVars>>

\* databaseConnection(): connect() starts one mongoose.connect promise, then
\* the 'disconnected' listener is registered; nothing is awaited
databaseConnection ==
    /\ ~exited /\ pc = "databaseConnection"
    /\ dbAttempts' = dbAttempts + 1
    /\ dbPending' = dbPending + 1
    /\ dbHandlers' = dbHandlers + 1
    /\ pc' = startOrder[1]
    /\ UNCHANGED <<env, config, procVars, log, stack, dbConnected, dbEverConnected,
                   dbDisconnects, dbRejections, netVars, reqVars>>

\* mongoose.connect(...).then: log success
dbConnectResolved ==
    /\ LoopIdle /\ dbPending > 0
    /\ dbPending' = dbPending - 1
    /\ dbConnected' = TRUE
    /\ dbEverConnected' = TRUE
    /\ log' = log \cup {<<"info", "Successfully connected to database">>}
    /\ UNCHANGED <<env, config, pc, procVars, stack, dbAttempts, dbHandlers,
                   dbDisconnects, dbRejections, netVars, reqVars>>

\* faulty variant: the catch handler logs the error and returns
dbConnectRejectedNoExit ==
    /\ LoopIdle /\ dbPending > 0
    /\ dbPending' = dbPending - 1
    /\ dbRejections' = dbRejections + 1
    /\ log' = log \cup {<<"error", "Error connecting to database">>}
    /\ UNCHANGED <<env, config, pc, procVars, stack, dbAttempts, dbConnected,
                   dbEverConnected, dbHandlers, dbDisconnects, netVars, reqVars>>

\* mongoose.connect(...).catch: log the error and process.exit(1)
dbConnectRejected ==
    /\ LoopIdle /\ dbPending > 0
    /\ dbPending' = dbPending - 1
    /\ dbRejections' = dbRejections + 1
    /\ log' = log \cup {<<"error", "Error connecting to database">>}
    /\ Exit(1)
    /\ UNCHANGED <<env, config, pc, stack, dbAttempts, dbConnected, dbEverConnected,
                   dbHandlers, dbDisconnects, netVars, reqVars>>

\* faulty variant: the listener is registered inside connect(), so every
\* call of connect() adds one more listener
dbDisconnectedAccumulates ==
    /\ LoopIdle /\ dbConnected /\ dbDisconnects < MaxDisconnects
    /\ dbConnected' = FALSE
    /\ dbDisconnects' = dbDisconnects + 1
    /\ dbAttempts' = dbAttempts + dbHandlers
    /\ dbPending' = dbPending + dbHandlers
    /\ dbHandlers' = dbHandlers + dbHandlers
    /\ UNCHANGED <<env, config, pc, procVars, log, stack, dbEverConnected,
                   dbRejections, netVars, reqVars>>

\* mongoose.connection emits 'disconnected': every registered listener calls
\* connect(), each starting a new mongoose.connect promise
dbDisconnected ==
    /\ LoopIdle /\ dbConnected /\ dbDisconnects < MaxDisconnects
    /\ dbConnected' = FALSE
    /\ dbDisconnects' = dbDisconnects + 1
    /\ dbAttempts' = dbAttempts + dbHandlers
    /\ dbPending' = dbPending + dbHandlers
    /\ UNCHANGED <<env, config, pc, procVars, log, stack, dbEverConnected, dbHandlers,
                   dbRejections, netVars, reqVars>>

-----------------------------------------------------------------------------
(* Installing the middleware (setupServer.ts 48-127) *)

\* securityMiddleware / standardMiddleware / routesMiddleware /
\* globalErrorHandler: append the method's layers to the express stack
installMiddleware ==
    /\ ~exited
    /\ pc \in {"securityMiddleware", "standardMiddleware", "routesMiddleware",
               "globalErrorHandler"}
    /\ stack' = stack \o layersOf(pc)
    /\ pc' = nextCall(pc)
    /\ UNCHANGED <<env, config, procVars, log, dbVars, netVars, reqVars>>

-----------------------------------------------------------------------------
(* ChattyServer.startServer / createSocketIO / startHttpServer (129-181) *)

\* faulty variant: only the publish client's connect() is awaited
allConnectedPubOnly == pubClient = "ready"

\* Promise.all([pubClient.connect(), subClient.connect()]) fulfils
allConnected == pubClient = "ready" /\ subClient = "ready"

\* Promise.all(...) rejects: as soon as one of the two rejects
anyRejected == pubClient = "failed" \/ subClient = "failed"

\* startServer up to the await inside createSocketIO: new http.Server(app),
\* new Server(httpServer), createClient, duplicate, both connect() started
startServer ==
    /\ ~exited /\ pc = "startServer"
    /\ httpServer' = "created"
    /\ io' = "built"
    /\ pubClient' = "pending"
    /\ subClient' = "pending"
    /\ pc' = "awaitBroker"
    /\ UNCHANGED <<env, config, procVars, log, stack, dbVars, reqVars>>

\* pubClient.connect() settles
pubClientSettles(outcome) ==
    /\ LoopIdle /\ pubClient = "pending"
    /\ pubClient' = outcome
    /\ UNCHANGED <<env, config, pc, procVars, log, stack, dbVars, httpServer, io,
                   subClient, reqVars>>

\* subClient.connect() settles
subClientSettles(outcome) ==
    /\ LoopIdle /\ subClient = "pending"
    /\ subClient' = outcome
    /\ UNCHANGED <<env, config, pc, procVars, log, stack, dbVars, httpServer, io,
                   pubClient, reqVars>>

\* the await returns: io.adapter(createAdapter(pubClient, subClient)); return io
attachAdapter ==
    /\ ~exited /\ pc = "awaitBroker" /\ allConnected
    /\ io' = "adapted"
    /\ pc' = "startHttpServer"
    /\ UNCHANGED <<env, config, procVars, log, stack, dbVars, httpServer, pubClient,
                   subClient, reqVars>>

\* the await throws: catch (error) { log.error(error) }; startServer returns
startServerCatch ==
    /\ ~exited /\ pc = "awaitBroker" /\ anyRejected
    /\ log' = log \cup {<<"error", "startServer">>}
    /\ pc' = "done"
    /\ UNCHANGED <<env, config, procVars, stack, dbVars, netVars, reqVars>>

\* startHttpServer: log the pid, httpServer.listen(SERVER_PORT, callback)
startHttpServer ==
    /\ ~exited /\ pc = "startHttpServer"
    /\ log' = log \cup {<<"info", "Server has started">>}
    /\ httpServer' = "listening"
    /\ pc' = "socketIOConnections"
    /\ UNCHANGED <<env, config, procVars, stack, dbVars, io, pubClient, subClient,
                   reqVars>>

\* socketIOConnections(io) {}: empty body
socketIOConnections ==
    /\ ~exited /\ pc = "socketIOConnections"
    /\ pc' = "done"
    /\ UNCHANGED <<env, config, procVars, log, stack, dbVars, netVars, reqVars>>

\* the listen callback
listenCallback ==
    /\ LoopIdle /\ httpServer = "listening"
    /\ <<"info", "Server running on port">> \notin log
    /\ log' = log \cup {<<"info", "Server running on port">>}
    /\ UNCHANGED <<env, config, pc, procVars, stack, dbVars, netVars, reqVars>>

\* the socket is bound and the process is alive
Listening == httpServer = "listening" /\ ~exited

-----------------------------------------------------------------------------
(* CustomError and its subclasses (error-handler.ts 19-88) *)

BAD_REQUEST == 400
UNAUTHORIZED == 401
NOT_FOUND == 404
REQUEST_TOO_LONG == 413
SERVICE_UNAVAILABLE == 503

ErrorClasses == {"JoiRequestValidationError", "BadRequestError", "NotFoundError",
                 "NotAuthourizeError", "FileTooLargeError", "ServerError"}

\* faulty variant: FileTooLargeError carries the BAD_REQUEST code
statusCodeOfSlip(name) ==
    CASE name = "JoiRequestValidationError" -> BAD_REQUEST
      [] name = "BadRequestError"           -> BAD_REQUEST
      [] name = "NotFoundError"             -> NOT_FOUND
      [] name = "NotAuthourizeError"        -> UNAUTHORIZED
      [] name = "FileTooLargeError"         -> BAD_REQUEST
      [] name = "ServerError"               -> SERVICE_UNAVAILABLE

\* the statusCode field initialiser of each subclass
statusCodeOf(name) ==
    CASE name = "JoiRequestValidationError" -> BAD_REQUEST
      [] name = "BadRequestError"           -> BAD_REQUEST
      [] name = "NotFoundError"             -> NOT_FOUND
      [] name = "NotAuthourizeError"        -> UNAUTHORIZED
      [] name = "FileTooLargeError"         -> REQUEST_TOO_LONG
      [] name = "ServerError"               -> SERVICE_UNAVAILABLE

\* the status field initialiser of each subclass
statusOf(name) == "error"

\* new <name>(message)
newError(name, message) ==
    [kind |-> "custom", name |-> name, message |-> message,
     status |-> statusOf(name), statusCode |-> statusCodeOf(name)]

\* CustomError.serializeErrors
serializeErrors(e) ==
    [message |-> e.message, status |-> e.status, statusCode |-> e.statusCode]

-----------------------------------------------------------------------------
(* Requests through the express stack (setupServer.ts 48-127) *)

Messages == {"m1", "m2"}
\* paths with a handler registered by applicationRoutes(app)
RoutePaths == {"/api/v1/ok"}
Paths == RoutePaths \cup {"/nope"}
\* query strings: none, or one parameter
Queries == {"", "?q=1"}

\* what the (opaque) route handler does when invoked
Outcomes ==
    {[t |-> "ok", name |-> "", message |-> ""]}
    \cup {[t |-> "throw", name |-> n, message |-> m] : n \in ErrorClasses, m \in Messages}
    \cup {[t |-> "throw", name |-> "Error", message |-> m] : m \in Messages}

\* body: "none", or its encoding; big: the body exceeds the '50mb' limit
Requests ==
    {[kind |-> "req", method |-> m, path |-> p, query |-> q, body |-> "none",
      big |-> FALSE] : m \in {"GET", "OPTIONS"}, p \in Paths, q \in Queries}
    \cup {[kind |-> "req", method |-> "POST", path |-> p, query |-> q, body |-> b,
           big |-> g] : p \in Paths, q \in Queries, b \in {"json", "form"},
                        g \in BOOLEAN}

\* req.originalUrl: the path followed by the query string
originalUrl(r) == r.path \o r.query

InFlight == reqIdx > 0
AtLayer(names) == InFlight /\ reqIdx <= Len(stack) /\ stack[reqIdx] \in names

\* the layer the request is at; past the end of the stack it is express's
\* final handler
Here == IF reqIdx <= Len(stack) THEN stack[reqIdx] ELSE "finalhandler"

\* res.status(code).json(body) / res.end(): the response is sent and the
\* chain stops (the layer does not call next)
Respond(code, body) ==
    /\ res' = Append(res, [statusCode |-> code, body |-> body])
    /\ reqIdx' = 0
    /\ visited' = Append(visited, Here)
    /\ UNCHANGED reqErr

\* next() / next(err)
CallNext(err) ==
    /\ reqErr' = err
    /\ reqIdx' = reqIdx + 1
    /\ visited' = Append(visited, Here)
    /\ UNCHANGED res

\* httpServer hands an incoming request to the express app
requestArrives(r) ==
    /\ LoopIdle /\ Listening /\ ~InFlight /\ served < MaxRequests
    /\ req' = r
    /\ reqIdx' = 1
    /\ reqErr' = NoErr
    /\ res' = <<>>
    /\ handlerRuns' = 0
    /\ caught' = NoErr
    /\ visited' = <<>>
    /\ served' = served + 1
    /\ UNCHANGED <<env, config, pc, procVars, log, stack, dbVars, netVars>>

\* express skips error-handling layers while there is no error, and skips
\* ordinary layers while an error is travelling
skipLayer ==
    /\ LoopIdle /\ InFlight /\ reqIdx <= Len(stack)
    /\ (reqErr = NoErr) <=> (stack[reqIdx] = "errorHandler")
    /\ reqIdx' = reqIdx + 1
    /\ UNCHANGED <<env, config, pc, procVars, log, stack, dbVars, netVars, req,
                   reqErr, res, handlerRuns, caught, visited, served>>

\* cookieSession / hpp / helmet / compression: decorate and call next()
passThrough ==
    /\ LoopIdle /\ AtLayer({"cookieSession", "hpp", "helmet", "compression"})
    /\ reqErr = NoErr
    /\ CallNext(NoErr)
    /\ UNCHANGED <<env, config, pc, procVars, log, stack, dbVars, netVars, req,
                   handlerRuns, caught, served>>

\* cors({optionsSuccessStatus: 200, ...}): a preflight OPTIONS request is
\* answered here, anything else gets headers and next()
corsLayer ==
    /\ LoopIdle /\ AtLayer({"cors"}) /\ reqErr = NoErr
    /\ IF req.method = "OPTIONS"
       THEN Respond(200, [empty |-> TRUE])
       ELSE CallNext(NoErr)
    /\ UNCHANGED <<env, config, pc, procVars, log, stack, dbVars, netVars, req,
                   handlerRuns, caught, served>>

\* the error body-parser raises for a body over the limit: an http-errors
\* PayloadTooLargeError (status 413), which is not a CustomError
entityTooLarge ==
    [kind |-> "http", name |-> "PayloadTooLargeError",
     message |-> "request entity too large", statusCode |-> 413]

\* json({limit: '50mb'}) / urlencoded({extended: true, limit: '50mb'}): each
\* parser reads only bodies of its own encoding
bodyParser ==
    /\ LoopIdle /\ AtLayer({"json", "urlencoded"}) /\ reqErr = NoErr
    /\ LET mine == IF stack[reqIdx] = "json" THEN "json" ELSE "form"
       IN  IF req.body = mine /\ req.big
           THEN CallNext(entityTooLarge)
           ELSE CallNext(NoErr)
    /\ UNCHANGED <<env, config, pc, procVars, log, stack, dbVars, netVars, req,
                   handlerRuns, caught, served>>

\* applicationRoutes(app): the handler registered for the path runs and does
\* o; with express-async-errors whatever it throws is passed to next(err)
routeDispatch(o) ==
    /\ LoopIdle /\ AtLayer({"routes"}) /\ reqErr = NoErr
    /\ IF req.path \notin RoutePaths
       THEN CallNext(NoErr) /\ UNCHANGED handlerRuns
       ELSE /\ handlerRuns' = handlerRuns + 1
            /\ CASE o.t = "ok" -> Respond(200, [ok |-> TRUE])
                 [] o.name \in ErrorClasses -> CallNext(newError(o.name, o.message))
                 [] OTHER -> CallNext([kind |-> "plain", name |-> "Error",
                                       message |-> o.message])
    /\ UNCHANGED <<env, config, pc, procVars, log, stack, dbVars, netVars, req,
                   caught, served>>

\* faulty variant: the message is built from the path without the query string
notFoundBodyPathOnly(r) == [message |-> r.path \o " not found"]

\* { message: `${req.originalUrl} not found` }
notFoundBody(r) == [message |-> originalUrl(r) \o " not found"]

\* app.all('*', ...): res.status(NOT_FOUND).json(...)
notFoundLayer ==
    /\ LoopIdle /\ AtLayer({"notFound"}) /\ reqErr = NoErr
    /\ Respond(NOT_FOUND, notFoundBody(req))
    /\ UNCHANGED <<env, config, pc, procVars, log, stack, dbVars, netVars, req,
                   handlerRuns, caught, served>>

\* the error middleware's answer: for a CustomError, status error.statusCode
\* and body error.serializeErrors(); statusCode 0 stands for "no answer here"
errorResponse(e) ==
    IF e.kind = "custom"
    THEN [statusCode |-> e.statusCode, body |-> serializeErrors(e)]
    ELSE [statusCode |-> 0, body |-> [none |-> TRUE]]

\* faulty variant: the `return` is missing, so after answering a CustomError
\* the middleware goes on to call next()
errorHandlerNoReturn ==
    /\ LoopIdle /\ AtLayer({"errorHandler"}) /\ reqErr # NoErr
    /\ log' = log \cup {<<"error", reqErr.kind>>}
    /\ caught' = reqErr
    /\ LET r == errorResponse(reqErr)
       IN  res' = IF r.statusCode # 0
                  THEN Append(res, [statusCode |-> r.statusCode, body |-> r.body])
                  ELSE res
    /\ reqErr' = NoErr
    /\ reqIdx' = reqIdx + 1
    /\ visited' = Append(visited, Here)
    /\ UNCHANGED <<env, config, pc, procVars, stack, dbVars, netVars, req,
                   handlerRuns, served>>

\* app.use((error, _req, res, next) => ...): log.error(error); a CustomError is
\* answered; for anything else next() is called WITHOUT the error
errorHandler ==
    /\ LoopIdle /\ AtLayer({"errorHandler"}) /\ reqErr # NoErr
    /\ log' = log \cup {<<"error", reqErr.kind>>}
    /\ caught' = reqErr
    /\ LET r == errorResponse(reqErr)
       IN  IF r.statusCode # 0
           THEN Respond(r.statusCode, r.body)
           ELSE CallNext(NoErr)
    /\ UNCHANGED <<env, config, pc, procVars, stack, dbVars, netVars, req,
                   handlerRuns, served>>

\* the stack is exhausted: express's final handler answers. Without an error
\* it is 404 "Cannot <METHOD> <path>"; with one, the error's own status code
\* when it has one, else 500; the body is an HTML page
finalHandler ==
    /\ LoopIdle /\ InFlight /\ reqIdx > Len(stack)
    /\ CASE reqErr = NoErr ->
              Respond(404, [html |-> "Cannot " \o req.method \o " " \o req.path])
         [] reqErr.kind \in {"custom", "http"} ->
              Respond(reqErr.statusCode, [html |-> reqErr.name])
         [] OTHER ->
              Respond(500, [html |-> "Internal Server Error"])
    /\ UNCHANGED <<env, config, pc, procVars, log, stack, dbVars, netVars, req,
                   handlerRuns, caught, served>>

-----------------------------------------------------------------------------
Next ==
    \/ loadConfig
    \/ databaseConnection
    \/ dbConnectResolved
    \/ dbConnectRejected
    \/ dbDisconnected
    \/ installMiddleware
    \/ startServer
    \/ \E o \in {"ready", "failed"} : pubClientSettles(o)
    \/ \E o \in {"ready", "failed"} : subClientSettles(o)
    \/ attachAdapter
    \/ startServerCatch
    \/ startHttpServer
    \/ socketIOConnections
    \/ listenCallback
    \/ \E r \in Requests : requestArrives(r)
    \/ skipLayer
    \/ passThrough
    \/ corsLayer
    \/ bodyParser
    \/ \E o \in Outcomes : routeDispatch(o)
    \/ notFoundLayer
    \/ errorHandler
    \/ finalHandler

Spec == Init /\ [][Next]_vars

\* one layer of the express stack, or the final handler, handles the request
PipelineStep ==
    \/ skipLayer
    \/ passThrough
    \/ corsLayer
    \/ bodyParser
    \/ \E o \in Outcomes : routeDispatch(o)
    \/ notFoundLayer
    \/ errorHandler
    \/ finalHandler

\* the steps the process takes by itself: synchronous code and continuations
\* that are ready to run. What the outside decides (whether and when a
\* connect() settles, a disconnect, an incoming request) is not among them.
ProgramStep ==
    \/ loadConfig
    \/ databaseConnection
    \/ installMiddleware
    \/ startServer
    \/ attachAdapter
    \/ startServerCatch
    \/ startHttpServer
    \/ socketIOConnections
    \/ listenCallback
    \/ PipelineStep

\* the event loop runs every continuation that is ready
FairSpec == Spec /\ WF_vars(ProgramStep)

-----------------------------------------------------------------------------
(* Properties *)

Range(q) == {q[i] : i \in 1..Len(q)}

\* the request in flight has been answered and its chain has ended
Answered == req # NoReq /\ reqIdx = 0 /\ res # <<>>

\* C1: with a required setting absent from the environment the process never
\* reaches Listening (httpServer.listen is never called).
C1_MissingSettingNeverListens ==
    (env # KeySet) => (httpServer # "listening")

\* C2: whenever the listening socket is bound, the gateway is constructed, the
\* adapter is attached to it, and both the publish and the subscribe link have
\* completed connecting (neither is pending or failed).
C2_ListeningImpliesBrokerAttached ==
    (httpServer = "listening") =>
        /\ io = "adapted"
        /\ pubClient = "ready"
        /\ subClient = "ready"

C2_Witness ==
    /\ httpServer = "listening"
    /\ io = "adapted"
    /\ ~exited

\* C3: once startServer has finished after a broker link failed to connect,
\* the process has aborted (it does not stay alive without listening).
C3_BrokerFailureIsFatal ==
    (pc = "done" /\ (pubClient = "failed" \/ subClient = "failed")) => exited

\* C4 (as claimed): whenever the listening socket is bound, the database has
\* already signalled a successful initial connection.
C4_ListeningImpliesDatabaseReady ==
    (httpServer = "listening") => dbEverConnected

\* C4 (amended): whenever the server is listening, the database connection
\* attempt has already been started: it is still in flight or it has
\* succeeded at least once.
C4_ListeningImpliesDatabaseStarted ==
    Listening => (dbPending > 0 \/ dbEverConnected)

C4_Witness ==
    /\ Listening
    /\ dbPending > 0
    /\ ~dbEverConnected

\* C5: if the initial database connect attempt fails, the process has exited
\* with a non-zero status and the cause is logged, and it is not serving;
\* also when the socket was bound before the failure arrived.
C5_DatabaseFailureAtStartupIsFatal ==
    (dbRejections > 0 /\ ~dbEverConnected) =>
        /\ exited
        /\ exitCode # 0
        /\ <<"error", "Error connecting to database">> \in log
        /\ ~Listening

C5_Witness ==
    /\ dbRejections > 0
    /\ ~dbEverConnected
    /\ httpServer = "listening"
    /\ exited

\* C6: after the database has connected once and the server is listening, a
\* failed reconnect attempt does not terminate the process: the server stays
\* in Listening.
C6_ReconnectFailureNotFatal ==
    (dbEverConnected /\ httpServer = "listening" /\ dbRejections > 0) => Listening

\* the pipeline stage a layer belongs to: 1 security, 2 body decoding,
\* 3 route dispatch, 4 not-found, 5 error translation, 6 express's final handler
StageOf(layer) ==
    CASE layer \in {"cookieSession", "hpp", "helmet", "cors"} -> 1
      [] layer \in {"compression", "json", "urlencoded"}     -> 2
      [] layer = "routes"                                      -> 3
      [] layer = "notFound"                                    -> 4
      [] layer = "errorHandler"                                -> 5
      [] OTHER                                                 -> 6

\* C7: the layers that handle a request do so in the order security, body
\* decoding, route dispatch, not-found, error translation; a route handler
\* has run only after every security and body layer passed the request; and
\* once the server exists the not-found and error layers are the last two.
C7_PipelineOrder ==
    /\ \A i, j \in 1..Len(visited) :
          i < j => StageOf(visited[i]) <= StageOf(visited[j])
    /\ (handlerRuns > 0) =>
          /\ {"cookieSession", "hpp", "helmet", "cors", "compression", "json",
              "urlencoded"} \subseteq Range(visited)
          /\ \A i, j \in 1..Len(visited) :
                (StageOf(visited[i]) <= 2 /\ visited[j] = "routes") => i < j
    /\ (httpServer # "none") =>
          /\ Len(stack) >= 2
          /\ stack[Len(stack) - 1] = "notFound"
          /\ stack[Len(stack)] = "errorHandler"

C7_Witness ==
    /\ handlerRuns > 0
    /\ Answered
    /\ caught # NoErr

\* the taxonomy kind of the spec each class implements
TaxonomyKind(name) ==
    CASE name = "JoiRequestValidationError" -> "ValidationError"
      [] name = "BadRequestError"           -> "BadRequestError"
      [] name = "NotAuthourizeError"        -> "NotAuthorizedError"
      [] name = "NotFoundError"             -> "NotFoundError"
      [] name = "FileTooLargeError"         -> "PayloadTooLargeError"
      [] name = "ServerError"               -> "ServerUnavailableError"

\* the status code the taxonomy table documents for each kind
DocumentedCode(kind) ==
    CASE kind = "ValidationError"        -> 400
      [] kind = "BadRequestError"        -> 400
      [] kind = "NotAuthorizedError"     -> 401
      [] kind = "NotFoundError"          -> 404
      [] kind = "PayloadTooLargeError"   -> 413
      [] kind = "ServerUnavailableError" -> 503

StatusVocabulary == {"error", "fail"}

SerializedAsDocumented(r, name, message) ==
    /\ DOMAIN r = {"message", "status", "statusCode"}
    /\ r.message = message
    /\ r.statusCode = DocumentedCode(TaxonomyKind(name))
    /\ r.status \in StatusVocabulary

\* C8: for every error class and message, serializeErrors() of the error built
\* with that message is exactly {message, status, statusCode} with the
\* documented code and a status of the closed vocabulary; in particular for
\* the error a handler has thrown and for the body the error stage sent.
C8_SerializeMatchesTaxonomy ==
    /\ \A n \in ErrorClasses, m \in Messages :
          SerializedAsDocumented(serializeErrors(newError(n, m)), n, m)
    /\ (reqErr.kind = "custom") =>
          SerializedAsDocumented(serializeErrors(reqErr), reqErr.name, reqErr.message)
    /\ (caught.kind = "custom" /\ Answered) =>
          SerializedAsDocumented(res[1].body, caught.name, caught.message)

C8_Witness ==
    /\ caught.kind = "custom"
    /\ caught.name = "FileTooLargeError"
    /\ Answered
    /\ res[1].body.statusCode = 413

\* C9: when a failure raised by a route handler reached the error stage, a
\* taxonomy member is answered with its statusCode and its serialized record,
\* and anything else with a 500-class status.
C9_ErrorTranslation ==
    (handlerRuns > 0 /\ caught # NoErr /\ Answered) =>
        IF caught.kind = "custom"
        THEN res[1] = [statusCode |-> caught.statusCode,
                       body |-> serializeErrors(caught)]
        ELSE res[1].statusCode \in 500..599

\* C10: a request whose body exceeds the limit is answered with 413 and its
\* route handler is never invoked.
C10_OversizeBodyRejected ==
    (req # NoReq /\ req.big) =>
        /\ handlerRuns = 0
        /\ Answered => res[1].statusCode = REQUEST_TOO_LONG

C12_FailureBodyIsErrorRecord ==
    \A i \in 1..Len(res) :
        (res[i].statusCode >= 400) =>
            DOMAIN res[i].body = {"message", "status", "statusCode"}

\* C13: broker attach is bounded: once startup waits for the two broker
\* links it eventually stops waiting (it goes on, fails, or the process ends),
\* also when a link's connect() never settles.
C13_AttachEventuallyEnds ==
    (pc = "awaitBroker") ~> (pc # "awaitBroker" \/ exited)

\* C16: whenever the listening socket is bound, and whenever a request is in
\* the pipeline, all five stages (security, body decoding, route dispatch,
\* not-found, error translation) are installed, each layer once.
C16_ListeningImpliesPipelineInstalled ==
    (httpServer = "listening" \/ InFlight) =>
        /\ {StageOf(stack[i]) : i \in 1..Len(stack)} = 1..5
        /\ stack = <<"cookieSession", "hpp", "helmet", "cors", "compression", "json",
                     "urlencoded", "routes", "notFound", "errorHandler">>

C16_Witness ==
    /\ Listening
    /\ InFlight
    /\ pc = "done"
    /\ Len(stack) = 10

\* C17: a request never gets two responses; while it is in the pipeline some
\* layer (or the final handler) can always take it on; once its chain has
\* ended it has exactly one response; and the process ends only through the
\* database helper's process.exit, never through a request.
C17_ExactlyOneResponse ==
    /\ Len(res) <= 1
    /\ (InFlight /\ ~exited) => (res = <<>> /\ ENABLED PipelineStep)
    /\ (req # NoReq /\ ~InFlight) => Len(res) = 1
    /\ exited => dbRejections > 0

C17_Witness ==
    /\ Answered
    /\ handlerRuns = 1
    /\ caught.kind = "plain"
    /\ visited[Len(visited)] = "finalhandler"
    /\ Len(res) = 1
    /\ ~exited

\* C18: once databaseConnection() has run there is exactly one 'disconnected'
\* listener, whatever connects, disconnects and reconnects followed; connect()
\* has been called once at start-up and once per disconnect event, and never
\* more than one attempt is in flight.
C18_OneDisconnectHandler ==
    /\ dbHandlers = IF pc \in {"loadConfig", "databaseConnection"} THEN 0 ELSE 1
    /\ dbAttempts = dbHandlers + dbDisconnects
    /\ dbPending <= 1

C18_Witness ==
    /\ dbDisconnects = MaxDisconnects
    /\ dbHandlers = 1
    /\ dbAttempts = MaxDisconnects + 1
    /\ dbConnected

====
